---- MODULE Spec2Model ----
(***************************************************************************)
(* Model of the span exporters of teer-serverless: TeerEdgeExporter and    *)
(* TeerExporter (exporter.ts).  Both run on one JavaScript event loop: a   *)
(* FIFO microtask queue (mq) holds the continuations of `await`, user code *)
(* and timer callbacks run as jobs, a transport send (fetch) is settled by *)
(* the environment.  Span records are numbered 1, 2, ... in the order in   *)
(* which export() accepted them.                                           *)
(***************************************************************************)
EXTENDS Integers, Sequences, FiniteSets, TLC

\* ---- bounds of the model ----
MaxSpans == 4       \* records accepted by export() in one behaviour
MaxExport == 2      \* records per export() call
MaxCalls == 2       \* forceFlush()/shutdown() calls in one behaviour
MaxFails == 1       \* failed transport sends in one behaviour
MaxBatchSize == 2   \* batchSize option is drawn from 1..MaxBatchSize

\* ---- program constants ----
MAX_QUEUE_SIZE == 3 \* exporter.ts MAX_QUEUE_SIZE (1000), scaled down
NULL == 0           \* null: no timer id, no promise
SUCCESS == 0        \* CODE.SUCCESS
ERROR == 1          \* CODE.ERROR
NONE == 2           \* result callback not invoked yet

VARIABLES
  cls,             \* which class was constructed
  batchSize,       \* TeerEdgeExporter.batchSize
  apiKey,          \* TRUE iff an apiKey was configured
  spanQueue,       \* this.spanQueue
  flushIntervalId, \* this.flushIntervalId (NULL or 1)
  isShuttingDown,  \* this.isShuttingDown
  activeFlush,     \* this.activeFlush (NULL or the id of a promise)
  instance,        \* TeerExporter.instance === this
  flights,         \* the pending processBatches()/sendSpans() promises
  callers,         \* the forceFlush()/shutdown() calls made so far
  mq,              \* the microtask queue
  nextId,          \* number of the next accepted record
  lastResult,      \* code passed to the result callback by the last export()
  sent,            \* history: the batches handed to the transport, in order
  delivered,       \* history: records of successful sends
  fails,           \* history: number of failed sends
  trimmed,         \* history: TRUE once the capacity trim dropped a record
  evicted,         \* history: the records the capacity trim dropped
  intakeError,     \* history: the last export() caught an error in its try
  teerEdge         \* the TeerEdge facade: its static instance and its calls

vars == <<cls, batchSize, apiKey, spanQueue, flushIntervalId, isShuttingDown,
          activeFlush, instance, flights, callers, mq, nextId, lastResult,
          sent, delivered, fails, trimmed, evicted, intakeError, teerEdge>>

cfgVars == <<cls, batchSize, apiKey>>

Min(a, b) == IF a < b THEN a ELSE b
Max(a, b) == IF a > b THEN a ELSE b
Range(s) == {s[i] : i \in 1..Len(s)}

RECURSIVE Flatten(_)
Flatten(ss) == IF ss = <<>> THEN <<>> ELSE Head(ss) \o Flatten(Tail(ss))

\* Array.prototype.slice(start, end), indices from 0, negative from the end
slice(a, start, end) ==
  LET n == Len(a)
      from == IF start < 0 THEN Max(n + start, 0) ELSE Min(start, n)
      to == IF end < 0 THEN Max(n + end, 0) ELSE Min(end, n)
  IN SubSeq(a, from + 1, to)

\* the state the operations work on, as one record
Cur ==
  [spanQueue |-> spanQueue, flushIntervalId |-> flushIntervalId,
   isShuttingDown |-> isShuttingDown, activeFlush |-> activeFlush,
   instance |-> instance, flights |-> flights, callers |-> callers, mq |-> mq,
   nextId |-> nextId, lastResult |-> lastResult, sent |-> sent,
   delivered |-> delivered, fails |-> fails, trimmed |-> trimmed,
   evicted |-> evicted, intakeError |-> intakeError, teerEdge |-> teerEdge]

Commit(s) ==
  /\ spanQueue' = s.spanQueue
  /\ flushIntervalId' = s.flushIntervalId
  /\ isShuttingDown' = s.isShuttingDown
  /\ activeFlush' = s.activeFlush
  /\ instance' = s.instance
  /\ flights' = s.flights
  /\ callers' = s.callers
  /\ mq' = s.mq
  /\ nextId' = s.nextId
  /\ lastResult' = s.lastResult
  /\ sent' = s.sent
  /\ delivered' = s.delivered
  /\ fails' = s.fails
  /\ trimmed' = s.trimmed
  /\ evicted' = s.evicted
  /\ intakeError' = s.intakeError
  /\ teerEdge' = s.teerEdge
  /\ UNCHANGED cfgVars

Job(k, f, c, ok) == [k |-> k, f |-> f, c |-> c, ok |-> ok]
UserJob == Job("user", 0, 0, TRUE)

\* state of promise p: "sending" and "cont" are pending
PromiseState(s, p) == IF p \in DOMAIN s.flights THEN s.flights[p].st ELSE "ok"
Settled(s, p) == PromiseState(s, p) \in {"ok", "err"}

\* `await p` by the continuation w: a reaction on p, or a job if p is settled
Await(s, p, w) ==
  IF Settled(s, p)
  THEN [s EXCEPT !.mq = Append(@, Job(w.k, w.f, w.c, PromiseState(s, p) = "ok"))]
  ELSE [s EXCEPT !.flights[p].waiters = Append(@, w)]

\* promise p is resolved (ok) or rejected: its reactions become jobs, in order
Settle(s, p, ok) ==
  LET ws == s.flights[p].waiters
  IN [s EXCEPT !.flights[p].st = IF ok THEN "ok" ELSE "err",
               !.flights[p].waiters = <<>>,
               !.mq = @ \o [i \in 1..Len(ws) |-> Job(ws[i].k, ws[i].f, ws[i].c, ok)]]

NewPromise(s) ==
  CHOOSE p \in 1..(Cardinality(DOMAIN s.flights) + 1) : p \notin DOMAIN s.flights

\* a new pending promise p of processBatches(batches)/sendSpans(spans)
Pending(s, p, batches, by) ==
  [s EXCEPT !.flights = [q \in DOMAIN @ \cup {p} |->
      IF q = p THEN [batches |-> batches, st |-> "cont", by |-> by, waiters |-> <<>>]
      ELSE @[q]]]

\* ---- TeerEdgeExporter ----

\* createBatches with an off-by-one slice end: batches overlap
createBatches_overlap(spans, size) ==
  LET RECURSIVE from(_)
      from(i) == IF i < Len(spans)
                 THEN <<slice(spans, i, i + size + 1)>> \o from(i + size)
                 ELSE <<>>
  IN from(0)

\* createBatches that stops before a last batch smaller than batchSize
createBatches_dropTail(spans, size) ==
  LET RECURSIVE from(_)
      from(i) == IF i + size <= Len(spans)
                 THEN <<slice(spans, i, i + size)>> \o from(i + size)
                 ELSE <<>>
  IN from(0)

createBatches(spans, size) ==
  LET RECURSIVE from(_)
      from(i) == IF i < Len(spans)
                 THEN <<slice(spans, i, i + size)>> \o from(i + size)
                 ELSE <<>>
  IN from(0)

\* sendBatch up to `await this.fetchImpl(...)`: the request is outstanding
sendBatch(s, p, spans) ==
  [s EXCEPT !.sent = Append(@, spans), !.flights[p].st = "sending"]

\* processBatches at the head of its loop: next batch, or return
processBatches(s, p) ==
  IF s.flights[p].batches = <<>>
  THEN Settle(s, p, TRUE)
  ELSE sendBatch(s, p, Head(s.flights[p].batches))

\* processBatches that re-queues a failed batch with push() instead of unshift()
processBatchesCont_push(s, p, ok) ==
  LET batch == Head(s.flights[p].batches)
  IN IF ok
     THEN processBatches([s EXCEPT !.delivered = @ \cup Range(batch),
                                   !.flights[p].batches = Tail(@)], p)
     ELSE Settle([s EXCEPT !.spanQueue = @ \o batch], p, FALSE)

\* processBatches that puts every batch back in the queue, sent or not
processBatchesCont_requeueAlways(s, p, ok) ==
  LET batch == Head(s.flights[p].batches)
  IN IF ok
     THEN processBatches([s EXCEPT !.delivered = @ \cup Range(batch),
                                   !.spanQueue = batch \o @,
                                   !.flights[p].batches = Tail(@)], p)
     ELSE Settle([s EXCEPT !.spanQueue = batch \o @], p, FALSE)

\* processBatches that re-queues a failed batch and goes on with the next one
processBatchesCont_continue(s, p, ok) ==
  LET batch == Head(s.flights[p].batches)
  IN IF ok
     THEN processBatches([s EXCEPT !.delivered = @ \cup Range(batch),
                                   !.flights[p].batches = Tail(@)], p)
     ELSE processBatches([s EXCEPT !.spanQueue = batch \o @,
                                   !.flights[p].batches = Tail(@)], p)

\* processBatches after `await this.sendBatch(batch)`
processBatchesCont(s, p, ok) ==
  LET batch == Head(s.flights[p].batches)
  IN IF ok
     THEN processBatches([s EXCEPT !.delivered = @ \cup Range(batch),
                                   !.flights[p].batches = Tail(@)], p)
     ELSE Settle([s EXCEPT !.spanQueue = batch \o @], p, FALSE)

\* the promise of an async flush() call by `by` settles (0 is the timer tick,
\* whose .catch() handler only logs)
FlushReturn(s, by, ok) ==
  IF by = 0
  THEN IF ok THEN s ELSE [s EXCEPT !.mq = Append(@, Job("timerCatch", 0, 0, FALSE))]
  ELSE [s EXCEPT !.mq = Append(@, Job("afterFlush", 0, by, ok))]

\* flush() that does not look at this.activeFlush
flush_noGuard(s, by) ==
  IF Len(s.spanQueue) = 0
  THEN FlushReturn(s, by, TRUE)
  ELSE LET batchesToProcess == createBatches(s.spanQueue, batchSize)
           p == NewPromise(s)
           s1 == Pending([s EXCEPT !.spanQueue = <<>>], p, batchesToProcess, by)
           s2 == [processBatches(s1, p) EXCEPT !.activeFlush = p]
       IN Await(s2, p, Job("flushCont", p, by, TRUE))

flush(s, by) ==
  IF Len(s.spanQueue) = 0 \/ s.activeFlush # NULL
  THEN FlushReturn(s, by, TRUE)
  ELSE LET batchesToProcess == createBatches(s.spanQueue, batchSize)
           p == NewPromise(s)
           s1 == Pending([s EXCEPT !.spanQueue = <<>>], p, batchesToProcess, by)
           s2 == [processBatches(s1, p) EXCEPT !.activeFlush = p]
       IN Await(s2, p, Job("flushCont", p, by, TRUE))

\* export() that trims with slice(0, MAX_QUEUE_SIZE): keeps the oldest records
export_keepOldest(s, n, hookThrows) ==
  IF hookThrows
  THEN [s EXCEPT !.lastResult = ERROR, !.intakeError = TRUE]
  ELSE LET pushed == s.spanQueue \o [i \in 1..n |-> s.nextId + i - 1]
           over == Len(pushed) > MAX_QUEUE_SIZE
       IN [s EXCEPT !.spanQueue = IF over
                                  THEN slice(pushed, 0, MAX_QUEUE_SIZE)
                                  ELSE pushed,
                    !.trimmed = @ \/ over,
                    !.evicted = @ \cup Range(slice(pushed, MAX_QUEUE_SIZE,
                                                   Len(pushed))),
                    !.intakeError = FALSE,
                    !.nextId = @ + n,
                    !.lastResult = SUCCESS]

\* export() without the catch block: the error leaves export(), no callback
export_noCatch(s, n, hookThrows) ==
  IF hookThrows
  THEN [s EXCEPT !.intakeError = TRUE]
  ELSE LET pushed == s.spanQueue \o [i \in 1..n |-> s.nextId + i - 1]
           over == Len(pushed) > MAX_QUEUE_SIZE
       IN [s EXCEPT !.spanQueue = IF over
                                  THEN slice(pushed, -MAX_QUEUE_SIZE, Len(pushed))
                                  ELSE pushed,
                    !.trimmed = @ \/ over,
                    !.evicted = @ \cup Range(slice(pushed, 0,
                                                   Len(pushed) - MAX_QUEUE_SIZE)),
                    !.intakeError = FALSE,
                    !.nextId = @ + n,
                    !.lastResult = SUCCESS]

\* export() that starts a flush as soon as a full batch is queued
export_flushWhenFull(s, n, hookThrows) ==
  IF hookThrows
  THEN [s EXCEPT !.lastResult = ERROR, !.intakeError = TRUE]
  ELSE LET pushed == s.spanQueue \o [i \in 1..n |-> s.nextId + i - 1]
           over == Len(pushed) > MAX_QUEUE_SIZE
           s1 == [s EXCEPT !.spanQueue = IF over
                                         THEN slice(pushed, -MAX_QUEUE_SIZE, Len(pushed))
                                         ELSE pushed,
                           !.trimmed = @ \/ over,
                           !.evicted = @ \cup Range(slice(pushed, 0,
                                                          Len(pushed) - MAX_QUEUE_SIZE)),
                           !.intakeError = FALSE,
                           !.nextId = @ + n,
                           !.lastResult = SUCCESS]
       IN IF Len(s1.spanQueue) >= batchSize THEN flush(s1, 0) ELSE s1

export(s, n, hookThrows) ==
  IF hookThrows
  THEN [s EXCEPT !.lastResult = ERROR, !.intakeError = TRUE]
  ELSE LET pushed == s.spanQueue \o [i \in 1..n |-> s.nextId + i - 1]
           over == Len(pushed) > MAX_QUEUE_SIZE
       IN [s EXCEPT !.spanQueue = IF over
                                  THEN slice(pushed, -MAX_QUEUE_SIZE, Len(pushed))
                                  ELSE pushed,
                    !.trimmed = @ \/ over,
                    !.evicted = @ \cup Range(slice(pushed, 0,
                                                   Len(pushed) - MAX_QUEUE_SIZE)),
                    !.intakeError = FALSE,
                    !.nextId = @ + n,
                    !.lastResult = SUCCESS]

\* ---- TeerExporter ----

\* sendSpans up to `await fetch(...)`; without an apiKey it throws at once
sendSpans(s, p) ==
  IF ~apiKey
  THEN Settle(s, p, FALSE)
  ELSE [s EXCEPT !.sent = Append(@, Head(s.flights[p].batches)),
                 !.flights[p].st = "sending"]

\* sendSpans after `await fetch(...)`
sendSpansCont(s, p, ok) ==
  LET spans == Head(s.flights[p].batches)
  IN IF ok
     THEN Settle([s EXCEPT !.delivered = @ \cup Range(spans)], p, TRUE)
     ELSE Settle([s EXCEPT !.spanQueue = spans \o @], p, FALSE)

TeerExporter_flush(s, by) ==
  IF Len(s.spanQueue) = 0 \/ s.activeFlush # NULL
  THEN FlushReturn(s, by, TRUE)
  ELSE LET spans == slice(s.spanQueue, 0, MAX_QUEUE_SIZE)
           rest == slice(s.spanQueue, Len(spans), Len(s.spanQueue))
           p == NewPromise(s)
           s1 == Pending([s EXCEPT !.spanQueue = rest], p, <<spans>>, by)
           s2 == [sendSpans(s1, p) EXCEPT !.activeFlush = p]
       IN Await(s2, p, Job("flushCont", p, by, TRUE))

\* enqueueSerializableSpans throws at span number throwAt (0: never)
TeerExporter_export(s, n, throwAt) ==
  LET m == IF throwAt = 0 THEN n ELSE throwAt - 1
  IN [s EXCEPT !.spanQueue = @ \o [i \in 1..m |-> s.nextId + i - 1],
               !.nextId = @ + m,
               !.lastResult = IF throwAt = 0 THEN SUCCESS ELSE ERROR,
               !.intakeError = throwAt # 0]

\* ---- code shared by the two classes ----

Flush(s, by) ==
  IF cls = "TeerEdgeExporter" THEN flush(s, by) ELSE TeerExporter_flush(s, by)

\* flush() without its finally block
flushCont_noFinally(s, p, by, ok) ==
  FlushReturn([s EXCEPT !.flights = [q \in DOMAIN @ \ {p} |-> @[q]]], by, ok)

\* flush() after `await this.activeFlush`: the finally block, then it settles
flushCont(s, p, by, ok) ==
  LET s1 == [s EXCEPT !.activeFlush = NULL,
                      !.flights = [q \in DOMAIN @ \ {p} |-> @[q]]]
  IN FlushReturn(s1, by, ok)

\* `await this.flush()` in forceFlush()/shutdown()
CallFlush(s, c) ==
  LET s1 == Flush(s, c)
  IN [s1 EXCEPT !.callers[c].pc = "awaitFlush",
                !.callers[c].called = TRUE,
                !.callers[c].left = s1.spanQueue]

\* `if (this.activeFlush) await this.activeFlush; await this.flush()`
AwaitActiveThenFlush(s, c) ==
  IF s.activeFlush # NULL
  THEN Await(s, s.activeFlush, Job("afterActive", 0, c, TRUE))
  ELSE CallFlush(s, c)

NewCaller(s, op) ==
  [s EXCEPT !.callers = Append(@, [op |-> op, pc |-> "awaitActive",
                                   snap |-> Range(s.spanQueue),
                                   called |-> FALSE, left |-> <<>>])]

\* forceFlush() that stops the interval timer before it flushes
forceFlush_stopTimer(s) ==
  LET s1 == NewCaller([s EXCEPT !.flushIntervalId = NULL], "forceFlush")
  IN AwaitActiveThenFlush(s1, Len(s1.callers))

forceFlush(s) ==
  LET s1 == NewCaller(s, "forceFlush")
  IN AwaitActiveThenFlush(s1, Len(s1.callers))

\* shutdown() that leaves the interval armed
clearInterval_skip(s) == s

clearInterval(s) ==
  IF s.flushIntervalId # NULL THEN [s EXCEPT !.flushIntervalId = NULL] ELSE s

shutdown(s) ==
  LET s1 == NewCaller(clearInterval([s EXCEPT !.isShuttingDown = TRUE]), "shutdown")
  IN AwaitActiveThenFlush(s1, Len(s1.callers))

\* forceFlush()/shutdown() after `await this.activeFlush`
afterActive(s, c, ok) ==
  IF ok THEN CallFlush(s, c) ELSE [s EXCEPT !.callers[c].pc = "rejected"]

\* shutdown() that calls flush() again when its flush failed
afterFlush_retry(s, c, ok) ==
  IF ~ok
  THEN IF s.callers[c].op = "shutdown"
       THEN CallFlush(s, c)
       ELSE [s EXCEPT !.callers[c].pc = "rejected"]
  ELSE [s EXCEPT !.callers[c].pc = "resolved",
                 !.instance = IF s.callers[c].op = "shutdown" /\ cls = "TeerExporter"
                              THEN FALSE ELSE @]

\* forceFlush()/shutdown() after `await this.flush()`
afterFlush(s, c, ok) ==
  IF ~ok
  THEN [s EXCEPT !.callers[c].pc = "rejected"]
  ELSE [s EXCEPT !.callers[c].pc = "resolved",
                 !.instance = IF s.callers[c].op = "shutdown" /\ cls = "TeerExporter"
                              THEN FALSE ELSE @]

\* a setInterval callback that starts a flush while another one is in flight
timerTick_ignoreActive(s) ==
  IF Len(s.spanQueue) > 0
  THEN IF cls = "TeerEdgeExporter" THEN flush_noGuard(s, 0) ELSE TeerExporter_flush(s, 0)
  ELSE s

\* a setInterval callback that waits until a full batch is queued
timerTick_fullBatchOnly(s) ==
  IF Len(s.spanQueue) >= MaxBatchSize /\ s.activeFlush = NULL THEN Flush(s, 0) ELSE s

\* the setInterval callback of startFlushInterval
timerTick(s) ==
  IF Len(s.spanQueue) > 0 /\ s.activeFlush = NULL THEN Flush(s, 0) ELSE s

\* ---- the TeerEdge facade (index.ts) ----

\* the exporter used directly, without the TeerEdge facade
NoFacade ==
  [instance |-> FALSE, isShuttingDown |-> FALSE, shutdownOnce |-> 0,
   calls |-> <<>>]

\* after getInstance(): TeerEdge.instance is set, the provider is up
Facade == [NoFacade EXCEPT !.instance = TRUE]

NewCall(s, op) ==
  [s EXCEPT !.teerEdge.calls = Append(@, [op |-> op, pc |-> "start", c |-> 0])]

\* promise layers between exporter.shutdown() and provider.shutdown()
ProviderHops == 3

\* the exporter call c has settled: the facade calls that await it go on
Notify(s, c) ==
  LET fs == s.teerEdge.calls
      job(f) == IF fs[f].pc = "awaitExporterFlush"
                THEN Job("afterExporterFlush", 0, f, s.callers[c].pc = "resolved")
                ELSE Job("providerHop", ProviderHops, f, s.callers[c].pc = "resolved")
      RECURSIVE from(_)
      from(f) == IF f > Len(fs) THEN <<>>
                 ELSE (IF fs[f].c = c /\ fs[f].pc \in {"awaitExporterFlush",
                                                       "awaitProvider"}
                       THEN <<job(f)>> ELSE <<>>) \o from(f + 1)
  IN IF s.callers[c].pc \in {"resolved", "rejected"}
     THEN [s EXCEPT !.mq = @ \o from(1)]
     ELSE s

\* static forceFlush() called for the facade call f
TeerEdge_forceFlush(s, f) ==
  IF ~s.teerEdge.instance
  THEN IF s.teerEdge.calls[f].op = "forceFlush"
       THEN [s EXCEPT !.teerEdge.calls[f].pc = "resolved"]
       ELSE [s EXCEPT !.teerEdge.calls[f].pc = "awaitForceFlush",
                      !.mq = Append(@, Job("afterForceFlush", 0, f, TRUE))]
  ELSE LET s1 == forceFlush(s)
       IN [s1 EXCEPT !.teerEdge.calls[f].pc = "awaitExporterFlush",
                     !.teerEdge.calls[f].c = Len(s1.callers)]

\* static forceFlush() after `await TeerEdge.instance.exporter.forceFlush()`
afterExporterFlush(s, f, ok) ==
  IF s.teerEdge.calls[f].op = "forceFlush"
  THEN [s EXCEPT !.teerEdge.calls[f].pc = IF ok THEN "resolved" ELSE "rejected"]
  ELSE [s EXCEPT !.teerEdge.calls[f].pc = "awaitForceFlush",
                 !.mq = Append(@, Job("afterForceFlush", 0, f, ok))]

\* static shutdown()
TeerEdge_shutdown(s) ==
  LET s1 == NewCall(s, "shutdown")
      f == Len(s1.teerEdge.calls)
  IN IF ~s.teerEdge.instance
     THEN [s1 EXCEPT !.teerEdge.calls[f].pc = "resolved"]
     ELSE TeerEdge_forceFlush(s1, f)

\* provider.shutdown(): SimpleSpanProcessor calls exporter.shutdown() once and
\* hands out the same promise afterwards
providerShutdown(s, f) ==
  IF s.teerEdge.shutdownOnce = 0
  THEN LET s1 == shutdown(s)
           c == Len(s1.callers)
       IN [s1 EXCEPT !.teerEdge.shutdownOnce = c,
                     !.teerEdge.calls[f].pc = "awaitProvider",
                     !.teerEdge.calls[f].c = c]
  ELSE LET c == s.teerEdge.shutdownOnce
           s1 == [s EXCEPT !.teerEdge.calls[f].pc = "awaitProvider",
                           !.teerEdge.calls[f].c = c]
       IN IF s.callers[c].pc \in {"resolved", "rejected"}
          THEN [s1 EXCEPT !.mq = Append(@, Job("providerHop", ProviderHops - 1, f,
                                               s.callers[c].pc = "resolved"))]
          ELSE s1

\* one promise reaction inside provider.shutdown(): the next layer, or the
\* continuation of `await this.provider.shutdown()`
providerHop(s, n, f, ok) ==
  IF n > 1
  THEN [s EXCEPT !.mq = Append(@, Job("providerHop", n - 1, f, ok))]
  ELSE [s EXCEPT !.mq = Append(@, Job("afterProvider", 0, f, ok))]

shutdownProvider(s, f) ==
  IF s.teerEdge.isShuttingDown
  THEN [s EXCEPT !.teerEdge.calls[f].pc = "awaitShutdownProvider",
                 !.mq = Append(@, Job("afterShutdownProvider", 0, f, TRUE))]
  ELSE providerShutdown([s EXCEPT !.teerEdge.isShuttingDown = TRUE], f)

\* static shutdown() after `await TeerEdge.forceFlush()`; reading
\* TeerEdge.instance.shutdownProvider with instance null is a TypeError
afterForceFlush(s, f, ok) ==
  IF ~ok
  THEN [s EXCEPT !.teerEdge.calls[f].pc = "rejected"]
  ELSE IF ~s.teerEdge.instance
       THEN [s EXCEPT !.teerEdge.calls[f].pc = "typeError"]
       ELSE shutdownProvider(s, f)

\* shutdownProvider() after `await this.provider.shutdown()`, with its finally
afterProvider(s, f, ok) ==
  [s EXCEPT !.teerEdge.instance = IF ok THEN FALSE ELSE @,
            !.teerEdge.isShuttingDown = FALSE,
            !.teerEdge.calls[f].pc = "awaitShutdownProvider",
            !.mq = Append(@, Job("afterShutdownProvider", 0, f, ok))]

\* static shutdown() after `await TeerEdge.instance.shutdownProvider()`
afterShutdownProvider(s, f, ok) ==
  [s EXCEPT !.teerEdge.calls[f].pc = IF ok THEN "resolved" ELSE "rejected"]

\* ---- the event loop ----

UserCtx == mq # <<>> /\ Head(mq).k = "user"

Init ==
  /\ cls \in {"TeerEdgeExporter", "TeerExporter"}
  /\ batchSize \in (IF cls = "TeerEdgeExporter" THEN 1..MaxBatchSize ELSE {1})
  /\ apiKey \in (IF cls = "TeerEdgeExporter" THEN {TRUE} ELSE BOOLEAN)
  /\ spanQueue = <<>>
  /\ flushIntervalId = 1
  /\ isShuttingDown = FALSE
  /\ activeFlush = NULL
  /\ instance = (cls = "TeerExporter")
  /\ flights = <<>>
  /\ callers = <<>>
  /\ mq = <<>>
  /\ nextId = 1
  /\ lastResult = NONE
  /\ sent = <<>>
  /\ delivered = {}
  /\ fails = 0
  /\ trimmed = FALSE
  /\ evicted = {}
  /\ intakeError = FALSE
  /\ teerEdge = NoFacade

\* user code starts to run as a task of its own
UserBegin ==
  /\ mq = <<>>
  /\ Commit([Cur EXCEPT !.mq = <<UserJob>>])

\* running user code queues a microtask that runs user code later
UserChain ==
  /\ UserCtx
  /\ \A i \in 2..Len(mq) : mq[i].k # "user"
  /\ Commit([Cur EXCEPT !.mq = Append(@, UserJob)])

UserEnd ==
  /\ UserCtx
  /\ Commit([Cur EXCEPT !.mq = Tail(@)])

Export ==
  /\ UserCtx
  /\ \E n \in 1..MaxExport, t \in 0..MaxExport :
       /\ t <= n
       /\ nextId + n - 1 <= MaxSpans
       /\ Commit(IF cls = "TeerEdgeExporter"
                 THEN export(Cur, n, t > 0)
                 ELSE TeerExporter_export(Cur, n, t))

ForceFlush ==
  /\ UserCtx
  /\ Len(callers) < MaxCalls
  /\ Commit(forceFlush(Cur))

Shutdown ==
  /\ UserCtx
  /\ Len(callers) < MaxCalls
  /\ Commit(shutdown(Cur))

\* the transport settles the outstanding request of promise p: an I/O event,
\* between two tasks or while user code runs
FetchSettle ==
  /\ UserCtx \/ mq = <<>>
  /\ \E p \in DOMAIN flights, ok \in BOOLEAN :
       /\ flights[p].st = "sending"
       /\ ok \/ fails < MaxFails
       /\ Commit([Cur EXCEPT !.flights[p].st = "cont",
                             !.fails = IF ok THEN @ ELSE @ + 1,
                             !.mq = Append(@, Job("pb", p, 0, ok))])

Tick ==
  /\ mq = <<>>
  /\ flushIntervalId # NULL
  /\ Commit(timerTick(Cur))

RunJob(k) == mq # <<>> /\ Head(mq).k = k
Popped == [Cur EXCEPT !.mq = Tail(@)]

RunSendCont ==
  /\ RunJob("pb")
  /\ Commit(IF cls = "TeerEdgeExporter"
            THEN processBatchesCont(Popped, Head(mq).f, Head(mq).ok)
            ELSE sendSpansCont(Popped, Head(mq).f, Head(mq).ok))

RunFlushCont ==
  /\ RunJob("flushCont")
  /\ Commit(flushCont(Popped, Head(mq).f, Head(mq).c, Head(mq).ok))

RunAfterActive ==
  /\ RunJob("afterActive")
  /\ Commit(Notify(afterActive(Popped, Head(mq).c, Head(mq).ok), Head(mq).c))

RunAfterFlush ==
  /\ RunJob("afterFlush")
  /\ Commit(Notify(afterFlush(Popped, Head(mq).c, Head(mq).ok), Head(mq).c))

RunTimerCatch ==
  /\ RunJob("timerCatch")
  /\ Commit(Popped)

Next ==
  \/ UserBegin \/ UserChain \/ UserEnd
  \/ Export \/ ForceFlush \/ Shutdown \/ FetchSettle \/ Tick
  \/ RunSendCont \/ RunFlushCont \/ RunAfterActive \/ RunAfterFlush
  \/ RunTimerCatch

Spec == Init /\ [][Next]_vars

\* ---- the exporter behind the TeerEdge facade ----

MaxFacadeCalls == 2 \* TeerEdge.forceFlush()/shutdown() calls in one behaviour

FacadeInit ==
  /\ cls = "TeerEdgeExporter"
  /\ batchSize \in 1..MaxBatchSize
  /\ apiKey = TRUE
  /\ spanQueue = <<>>
  /\ flushIntervalId = 1
  /\ isShuttingDown = FALSE
  /\ activeFlush = NULL
  /\ instance = FALSE
  /\ flights = <<>>
  /\ callers = <<>>
  /\ mq = <<>>
  /\ nextId = 1
  /\ lastResult = NONE
  /\ sent = <<>>
  /\ delivered = {}
  /\ fails = 0
  /\ trimmed = FALSE
  /\ evicted = {}
  /\ intakeError = FALSE
  /\ teerEdge = Facade

\* a span ends: SimpleSpanProcessor.onEnd hands it to exporter.export() unless
\* the processor was shut down
TracerExport ==
  /\ teerEdge.shutdownOnce = 0
  /\ Export

TeerEdgeForceFlush ==
  /\ UserCtx
  /\ Len(teerEdge.calls) < MaxFacadeCalls
  /\ LET s1 == NewCall(Cur, "forceFlush")
     IN Commit(TeerEdge_forceFlush(s1, Len(s1.teerEdge.calls)))

TeerEdgeShutdown ==
  /\ UserCtx
  /\ Len(teerEdge.calls) < MaxFacadeCalls
  /\ Commit(TeerEdge_shutdown(Cur))

RunAfterExporterFlush ==
  /\ RunJob("afterExporterFlush")
  /\ Commit(afterExporterFlush(Popped, Head(mq).c, Head(mq).ok))

RunAfterForceFlush ==
  /\ RunJob("afterForceFlush")
  /\ Commit(afterForceFlush(Popped, Head(mq).c, Head(mq).ok))

RunProviderHop ==
  /\ RunJob("providerHop")
  /\ Commit(providerHop(Popped, Head(mq).f, Head(mq).c, Head(mq).ok))

RunAfterProvider ==
  /\ RunJob("afterProvider")
  /\ Commit(afterProvider(Popped, Head(mq).c, Head(mq).ok))

RunAfterShutdownProvider ==
  /\ RunJob("afterShutdownProvider")
  /\ Commit(afterShutdownProvider(Popped, Head(mq).c, Head(mq).ok))

\* user code runs here as tasks of its own only (no UserChain)
FacadeNext ==
  \/ UserBegin \/ UserEnd
  \/ TracerExport \/ TeerEdgeForceFlush \/ TeerEdgeShutdown
  \/ FetchSettle \/ Tick
  \/ RunSendCont \/ RunFlushCont \/ RunAfterActive \/ RunAfterFlush
  \/ RunTimerCatch
  \/ RunAfterExporterFlush \/ RunAfterForceFlush \/ RunProviderHop
  \/ RunAfterProvider \/ RunAfterShutdownProvider

FacadeSpec == FacadeInit /\ [][FacadeNext]_vars

\* the facade with user code that also runs between two microtasks
FacadeChainNext == FacadeNext \/ UserChain

FacadeChainInit == FacadeInit /\ batchSize = MaxBatchSize

FacadeChainSpec == FacadeChainInit /\ [][FacadeChainNext]_vars

\* ---- createBatches on its own ----

\* the input sequences: up to MaxSpans records, repetitions allowed
BatcherInputs == UNION {[1..n -> 1..MaxExport] : n \in 0..MaxSpans}

BatcherInit ==
  /\ cls = "TeerEdgeExporter"
  /\ batchSize \in 1..(MaxBatchSize + 1)
  /\ apiKey = TRUE
  /\ spanQueue \in BatcherInputs
  /\ flushIntervalId = 1
  /\ isShuttingDown = FALSE
  /\ activeFlush = NULL
  /\ instance = FALSE
  /\ flights = <<>>
  /\ callers = <<>>
  /\ mq = <<>>
  /\ nextId = 1
  /\ lastResult = NONE
  /\ sent = <<>>
  /\ delivered = {}
  /\ fails = 0
  /\ trimmed = FALSE
  /\ evicted = {}
  /\ intakeError = FALSE
  /\ teerEdge = NoFacade

\* `const batchesToProcess = this.createBatches(this.spanQueue)`
CreateBatches ==
  /\ flights = <<>>
  /\ Commit(Pending(Cur, 1, createBatches(spanQueue, batchSize), 0))

BatcherSpec == BatcherInit /\ [][CreateBatches]_vars

Microtask ==
  \/ RunSendCont \/ RunFlushCont \/ RunAfterActive \/ RunAfterFlush
  \/ RunTimerCatch

\* user code runs as tasks of its own and returns (it makes at most one
\* forceFlush()/shutdown() call), the microtask at the head of the queue
\* runs, every send settles, the interval timer keeps firing
LiveNext ==
  \/ UserBegin \/ UserEnd \/ Export
  \/ (callers = <<>> /\ ForceFlush)
  \/ (callers = <<>> /\ Shutdown)
  \/ FetchSettle \/ Tick
  \/ Microtask

LiveSpec ==
  /\ Init
  /\ [][LiveNext]_vars
  /\ WF_vars(UserEnd)
  /\ WF_vars(Microtask)
  /\ SF_vars(FetchSettle)
  /\ SF_vars(Tick)

\* ---- properties ----

Edge == cls = "TeerEdgeExporter"
Outstanding == {p \in DOMAIN flights : flights[p].st = "sending"}
Increasing(q) == \A i, j \in 1..Len(q) : i < j => q[i] < q[j]
IsPrefix(a, b) == Len(a) <= Len(b) /\ SubSeq(b, 1, Len(a)) = a
RunsJob(k, ok) == mq # <<>> /\ Head(mq).k = k /\ Head(mq).ok = ok
Done(c) == callers[c].pc \in {"resolved", "rejected"}

\* C1: single-flight: in a TeerEdgeExporter at most one transport send is
\* outstanding and at most one flush promise exists, in every reachable state.
SingleFlight ==
  Edge => Cardinality(Outstanding) <= 1 /\ Cardinality(DOMAIN flights) <= 1

\* C1 witness: a send is outstanding while a forceFlush()/shutdown() call waits
\* for that flush and export() has queued more records.
SingleFlightWitness ==
  /\ Edge
  /\ Outstanding # {}
  /\ spanQueue # <<>>
  /\ \E c \in 1..Len(callers) : callers[c].pc = "awaitActive"

\* C2 (as claimed): when a batch send fails, the queue then starts with the
\* failed batch followed by the batches of that flush not yet attempted.
FailureRequeuesUntried ==
  [][(Edge /\ RunsJob("pb", FALSE))
       => IsPrefix(Flatten(flights[Head(mq).f].batches), spanQueue')]_vars

\* C3 (as claimed): when a forceFlush() call resolves, every record that was
\* queued when the call began is delivered or back in the queue (no capacity
\* trim having dropped any record).
ForceFlushComplete ==
  [][\A c \in 1..Len(callers) :
       (/\ Edge
        /\ callers[c].op = "forceFlush"
        /\ callers[c].pc # "resolved"
        /\ callers'[c].pc = "resolved"
        /\ ~trimmed')
       => \A r \in callers[c].snap : r \in delivered' \/ r \in Range(spanQueue')]_vars

\* C4: order preservation: with no failed send and no capacity trim, the
\* batches handed to the transport, concatenated, are the first accepted
\* records 1, 2, ... in order; no batch has more than batchSize records.
OrderPreserved ==
  Edge =>
    /\ \A i \in 1..Len(sent) : Len(sent[i]) <= batchSize
    /\ (fails = 0 /\ ~trimmed) =>
         /\ Len(Flatten(sent)) <= nextId - 1
         /\ Flatten(sent) = [i \in 1..Len(Flatten(sent)) |-> i]

\* C4 witness: three records went out in a full batch and a smaller one.
OrderPreservedWitness ==
  /\ Edge
  /\ fails = 0
  /\ ~trimmed
  /\ batchSize = 2
  /\ Len(sent) >= 2
  /\ Len(Flatten(sent)) = 3

\* C5: requeue priority: the step that handles a failed send puts the records
\* of the failed batch (request) at the head of the queue, before everything
\* export() appended meanwhile, and the queue stays in acceptance order, so
\* records appended later never get ahead of them.
RequeuePriority ==
  [][/\ RunsJob("pb", FALSE)
        => spanQueue' = Head(flights[Head(mq).f].batches) \o spanQueue
     /\ Increasing(spanQueue')]_vars

\* C5 witness: a failed batch is back at the head, in front of newer records.
RequeuePriorityWitness ==
  \E p \in DOMAIN flights :
    /\ flights[p].st = "err"
    /\ fails > 0
    /\ IsPrefix(Head(flights[p].batches), spanQueue)
    /\ Len(spanQueue) > Len(Head(flights[p].batches))

\* C6: capacity bound on intake: an export() that accepts records leaves the
\* last MAX_QUEUE_SIZE records of (old queue, then the new records).
CapacityOnIntake ==
  [][(Edge /\ nextId' > nextId) =>
       LET all == spanQueue \o [i \in 1..(nextId' - nextId) |-> nextId + i - 1]
           keep == Min(Len(all), MAX_QUEUE_SIZE)
       IN /\ Len(spanQueue') <= MAX_QUEUE_SIZE
          /\ spanQueue' = [i \in 1..keep |-> all[Len(all) - keep + i]]]_vars

\* C6 witness: the trim has dropped the oldest record of a full queue.
CapacityOnIntakeWitness ==
  /\ Edge
  /\ trimmed
  /\ lastResult = SUCCESS
  /\ Len(spanQueue) = MAX_QUEUE_SIZE
  /\ spanQueue[1] > 1
  /\ delivered = {}
  /\ sent = <<>>

\* C7 (as claimed): a failed send never makes a forceFlush() call reject.
TransportErrorsNotThrown ==
  Edge => \A c \in 1..Len(callers) :
            callers[c].op = "forceFlush" => callers[c].pc # "rejected"

\* C8 (as claimed): with an apiKey configured, a shutdown() call that has
\* completed has cancelled the timer and made its final flush() call, which
\* left the queue drained.
ShutdownProtocol ==
  \A c \in 1..Len(callers) :
    (apiKey /\ callers[c].op = "shutdown" /\ Done(c))
      => flushIntervalId = NULL /\ callers[c].called /\ callers[c].left = <<>>

\* C9: once shutdown() has been called the interval stays cancelled and no
\* timer tick starts a flush.
NoTimerFlushAfterShutdown ==
  [][/\ isShuttingDown => isShuttingDown'
     /\ isShuttingDown' => flushIntervalId' = NULL
     /\ isShuttingDown =>
          ~\E p \in DOMAIN flights' : p \notin DOMAIN flights /\ flights'[p].by = 0]_vars

\* C9 witness: after shutdown() the queue is non-empty and nothing is in
\* flight: an armed timer would start a flush here.
NoTimerFlushAfterShutdownWitness ==
  /\ isShuttingDown
  /\ spanQueue # <<>>
  /\ activeFlush = NULL
  /\ mq = <<>>
  /\ \A c \in 1..Len(callers) : Done(c)

\* C10 (as claimed): after shutdown() has resolved, export() does not accept
\* records with the success code.
NoIntakeAfterShutdown ==
  [][(/\ Edge
      /\ \E c \in 1..Len(callers) :
           callers[c].op = "shutdown" /\ callers[c].pc = "resolved"
      /\ nextId' > nextId)
       => lastResult' # SUCCESS]_vars

\* an export() call ran in this step (no other operation changes these)
ExportStep ==
  nextId' # nextId \/ lastResult' # lastResult \/ intakeError' # intakeError

\* C11: intake never touches the network: a step of export() starts no send,
\* waits for no flush, leaves activeFlush, the flush promises, the timer and
\* the microtask queue as they were, and (no error caught) has appended the
\* records at the tail of the queue and passed the success code.
IntakeNeverSends ==
  [][ExportStep =>
       /\ UNCHANGED <<sent, delivered, fails, flights, activeFlush,
                      flushIntervalId, isShuttingDown, instance, callers, mq,
                      teerEdge>>
       /\ ~intakeError' =>
            /\ lastResult' = SUCCESS
            /\ nextId' > nextId
            /\ spanQueue' # <<>>
            /\ spanQueue'[Len(spanQueue')] = nextId' - 1]_vars

\* C11 witness: export() has accepted records while a send is outstanding and
\* a forceFlush() waits for it: the records sit in the queue, nothing else
\* was sent.
IntakeNeverSendsWitness ==
  /\ Outstanding # {}
  /\ Len(sent) = 1
  /\ lastResult = SUCCESS
  /\ spanQueue # <<>>
  /\ spanQueue[Len(spanQueue)] = nextId - 1
  /\ \A r \in Range(spanQueue) : r \notin Range(Flatten(sent))
  /\ callers # <<>>

\* C12 (as claimed): when the onExport hook throws during export(spans), the
\* spans are still appended to the queue.
HookErrorKeepsSpans ==
  [][(Edge /\ ExportStep /\ intakeError')
       => nextId' > nextId /\ spanQueue' # spanQueue]_vars

\* C13: intake errors are reported, not thrown: an export() call of either
\* class that caught an error (hook, enqueueing) has passed CODE.ERROR to the
\* result callback, and a call that caught none has passed CODE.SUCCESS.
IntakeErrorsReported ==
  /\ intakeError => lastResult = ERROR
  /\ (~intakeError /\ lastResult # NONE) => lastResult = SUCCESS

\* C13 witness: the hook threw in an export() call that followed an accepted
\* one: the callback got CODE.ERROR and the queue kept the earlier records.
IntakeErrorsReportedWitness ==
  /\ Edge
  /\ intakeError
  /\ lastResult = ERROR
  /\ nextId > 1
  /\ spanQueue # <<>>

\* C14 (as claimed): with no API key configured a send attempt is a failed
\* send that takes the requeue path: every accepted record is in the queue or
\* in a flush that has not ended its send, none is lost and none is delivered.
MissingKeyRequeues ==
  ~apiKey =>
    /\ delivered = {}
    /\ \A r \in 1..(nextId - 1) :
         \/ r \in Range(spanQueue)
         \/ \E p \in DOMAIN flights :
              /\ flights[p].st \in {"cont", "sending"}
              /\ r \in Range(Flatten(flights[p].batches))

FacadeDone(f) == teerEdge.calls[f].pc \in {"resolved", "rejected", "typeError"}

\* C15 (as claimed): when a TeerEdge.shutdown() call has completed, whether
\* its flush succeeded or failed, the exporter's timer is cancelled and
\* TeerEdge.instance is null.
FacadeShutdownTerminal ==
  \A f \in 1..Len(teerEdge.calls) :
    (teerEdge.calls[f].op = "shutdown" /\ FacadeDone(f))
      => flushIntervalId = NULL /\ ~teerEdge.instance


NoShutdownCalled ==
  /\ \A f \in 1..Len(teerEdge.calls) : teerEdge.calls[f].op # "shutdown"
  /\ \A c \in 1..Len(callers) : callers[c].op # "shutdown"

\* a step of TeerEdge.forceFlush() or of the exporter's forceFlush(): the call
\* itself or one of its continuations
ForceFlushStep ==
  \/ /\ Len(teerEdge.calls') > Len(teerEdge.calls)
     /\ teerEdge.calls'[Len(teerEdge.calls')].op = "forceFlush"
  \/ RunJob("afterExporterFlush")
  \/ /\ RunJob("afterActive") \/ RunJob("afterFlush")
     /\ callers[Head(mq).c].op = "forceFlush"

\* C16: forceFlush keeps the tracer active: no step of TeerEdge.forceFlush()
\* or of the exporter's forceFlush() cancels the timer, sets isShuttingDown or
\* clears TeerEdge.instance, so while shutdown() was never called the timer
\* stays armed and the instance set; called with no instance,
\* TeerEdge.forceFlush() returns at once, creates none and calls nothing.
ForceFlushKeepsActive ==
  [][/\ ForceFlushStep =>
          /\ UNCHANGED <<flushIntervalId, isShuttingDown>>
          /\ teerEdge'.instance = teerEdge.instance
          /\ teerEdge'.isShuttingDown = teerEdge.isShuttingDown
          /\ teerEdge'.shutdownOnce = teerEdge.shutdownOnce
     /\ NoShutdownCalled' =>
          /\ flushIntervalId' # NULL
          /\ ~isShuttingDown'
          /\ teerEdge'.instance
     /\ (/\ Len(teerEdge.calls') > Len(teerEdge.calls)
         /\ teerEdge.calls'[Len(teerEdge.calls')].op = "forceFlush"
         /\ ~teerEdge.instance) =>
          /\ teerEdge.calls'[Len(teerEdge.calls')].pc = "resolved"
          /\ ~teerEdge'.instance
          /\ UNCHANGED <<callers, flights, sent, mq, spanQueue, activeFlush>>]_vars

\* C16 witness: a TeerEdge.forceFlush() has resolved with its records
\* delivered; a record exported later is being sent by a flush that a timer
\* tick started, and the instance is still set.
ForceFlushKeepsActiveWitness ==
  /\ teerEdge.instance
  /\ Len(teerEdge.calls) >= 1
  /\ teerEdge.calls[1].op = "forceFlush"
  /\ teerEdge.calls[1].pc = "resolved"
  /\ callers[1].snap # {}
  /\ callers[1].snap \subseteq delivered
  /\ \E p \in DOMAIN flights :
       /\ flights[p].by = 0
       /\ flights[p].st = "sending"
       /\ \E r \in Range(Head(flights[p].batches)) : r \notin callers[1].snap


Handed == Range(Flatten(sent))

AllHanded == \A r \in 1..(nextId - 1) : r \in Handed \/ r \in evicted

\* C17: eventual delivery attempt (TeerEdgeExporter): under a fair event loop,
\* with no failed send and no shutdown() call, again and again every record
\* accepted so far has been handed to the transport or evicted by the
\* capacity trim: no accepted record waits for ever.
EventuallyHanded ==
  []<>(~Edge \/ AllHanded \/ fails > 0 \/ isShuttingDown)

\* C17 witness: all records were accepted, one was evicted, the others went
\* out in several sends, none failed and shutdown() was not called.
EventuallyHandedWitness ==
  /\ Edge
  /\ nextId = MaxSpans + 1
  /\ fails = 0
  /\ ~isShuttingDown
  /\ evicted # {}
  /\ Len(sent) >= 2
  /\ \A r \in 1..MaxSpans : r \in Handed \/ r \in evicted

\* C19: flush termination (both classes): under a fair event loop, where each
\* send settles, a flush that has started ends, and the step that ends it
\* (its finally block) leaves activeFlush null.
FlushEnds ==
  /\ (activeFlush # NULL) ~> (activeFlush = NULL)
  /\ [][(\E p \in DOMAIN flights : p \notin DOMAIN flights')
          => activeFlush' = NULL]_vars
  /\ [](activeFlush # NULL => activeFlush \in DOMAIN flights)

\* C19 witness: a flush whose send failed has ended: nothing is in flight,
\* activeFlush is null and the failed records are queued again.
FlushEndsWitness ==
  /\ activeFlush = NULL
  /\ flights = <<>>
  /\ fails > 0
  /\ sent # <<>>
  /\ spanQueue # <<>>
  /\ mq = <<>>


\* C18 (as claimed): in a TeerEdgeExporter the queue never holds more than
\* MAX_QUEUE_SIZE records, in every reachable state.
QueueBounded == Edge => Len(spanQueue) <= MAX_QUEUE_SIZE


\* C20: one attempt per batch per cycle (TeerEdgeExporter): a send is issued
\* only for the first batch of a flush that starts in this step or, after the
\* previous batch of the flush succeeded, for its next batch; the step that
\* handles a failed send issues none and ends the cycle's sends for good, so
\* the failed records go out again only in a later flush.
OneAttemptPerCycle ==
  [][Edge =>
       /\ sent' # sent =>
            \E p \in DOMAIN flights' :
              /\ flights'[p].st = "sending"
              /\ sent' = Append(sent, Head(flights'[p].batches))
              /\ \/ p \notin DOMAIN flights
                 \/ /\ RunsJob("pb", TRUE)
                    /\ Head(mq).f = p
                    /\ flights'[p].batches = Tail(flights[p].batches)
       /\ RunsJob("pb", FALSE) =>
            /\ sent' = sent
            /\ flights'[Head(mq).f].st = "err"
            /\ flights'[Head(mq).f].batches = flights[Head(mq).f].batches
       /\ \A p \in DOMAIN flights \cap DOMAIN flights' :
            /\ flights[p].st \in {"ok", "err"} => flights'[p] = flights[p]
            /\ \/ flights'[p].batches = flights[p].batches
               \/ /\ flights[p].batches # <<>>
                  /\ flights'[p].batches = Tail(flights[p].batches)]_vars

\* C20 witness: the first of several batches failed: the cycle has ended its
\* sends with one attempt and the other batches untried.
OneAttemptPerCycleWitness ==
  /\ Edge
  /\ Len(sent) = 1
  /\ \E p \in DOMAIN flights :
       /\ flights[p].st = "err"
       /\ Len(flights[p].batches) >= 2
       /\ sent[1] = Head(flights[p].batches)


\* C21: shutdown makes a single final attempt and terminates
\* (TeerEdgeExporter): under a fair event loop, where each send settles, every
\* shutdown() call completes, also when its send fails; and a shutdown() call
\* starts a flush cycle of its own at most once (only by its one flush() call).
ShutdownTerminates ==
  /\ []<>(\A c \in 1..Len(callers) :
            (Edge /\ callers[c].op = "shutdown") => Done(c))
  /\ [][\A p \in DOMAIN flights' \ DOMAIN flights :
          LET c == flights'[p].by
          IN (Edge /\ c > 0 /\ callers'[c].op = "shutdown")
               => /\ c > Len(callers) \/ ~callers[c].called
                  /\ callers'[c].called]_vars

\* C21 witness: the flush that shutdown() started failed: the call has
\* completed (rejected) after its single attempt, the failed records are
\* left in the queue and nothing is in flight.
ShutdownTerminatesWitness ==
  /\ Edge
  /\ fails > 0
  /\ activeFlush = NULL
  /\ spanQueue # <<>>
  /\ mq = <<>>
  /\ \E c \in 1..Len(callers) :
       /\ callers[c].op = "shutdown"
       /\ callers[c].called
       /\ callers[c].pc = "rejected"


\* C22: batcher: for every input sequence and batchSize >= 1 the batches of
\* createBatches, concatenated, are the input; every batch has 1..batchSize
\* records and every batch but the last exactly batchSize; an empty input
\* gives no batch; the input is left as it was.
BatcherCorrect ==
  /\ [](\A p \in DOMAIN flights :
          LET bs == flights[p].batches
          IN /\ Flatten(bs) = spanQueue
             /\ \A i \in 1..Len(bs) : Len(bs[i]) >= 1 /\ Len(bs[i]) <= batchSize
             /\ \A i \in 1..(Len(bs) - 1) : Len(bs[i]) = batchSize
             /\ spanQueue = <<>> => bs = <<>>)
  /\ [][spanQueue' = spanQueue]_vars

\* C22 witness: an input that is not a multiple of batchSize was split into
\* full batches and a smaller last one.
BatcherCorrectWitness ==
  \E p \in DOMAIN flights :
    LET bs == flights[p].batches
    IN /\ batchSize >= 2
       /\ Len(bs) >= 2
       /\ Len(bs[Len(bs)]) < batchSize
       /\ Len(spanQueue) = MaxSpans


\* C23: timer guard: a flush owned by the timer starts only in a tick that
\* finds the queue non-empty and no flush active; a step taken between two
\* tasks while the queue is empty or a flush is in flight (a tick, or the
\* transport settling) drains nothing, sends nothing and leaves the queue and
\* activeFlush as they were.
TimerGuard ==
  [][/\ (\E p \in DOMAIN flights' \ DOMAIN flights : flights'[p].by = 0)
          => /\ mq = <<>>
             /\ flushIntervalId # NULL
             /\ spanQueue # <<>>
             /\ activeFlush = NULL
     /\ (mq = <<>> /\ (spanQueue = <<>> \/ activeFlush # NULL))
          => /\ UNCHANGED <<spanQueue, activeFlush, sent>>
             /\ DOMAIN flights' = DOMAIN flights]_vars

\* C23 witness: the timer is armed and the loop idle while a flush that a
\* tick started is in flight and records wait in the queue: a tick here
\* starts nothing.
TimerGuardWitness ==
  /\ mq = <<>>
  /\ flushIntervalId # NULL
  /\ spanQueue # <<>>
  /\ activeFlush # NULL
  /\ \E p \in DOMAIN flights : flights[p].by = 0 /\ flights[p].st = "sending"


\* C24 (as claimed): after any sequence of TeerExporter.export() calls (no
\* flush has run yet) the queue holds at most MAX_QUEUE_SIZE records.
TeerExporterQueueBounded ==
  (cls = "TeerExporter" /\ sent = <<>> /\ flights = <<>> /\ callers = <<>>)
    => Len(spanQueue) <= MAX_QUEUE_SIZE

\* C25 (as claimed): when a TeerExporter.shutdown() call has completed,
\* whether its flush succeeded or failed, the timer is cancelled and
\* TeerExporter.instance is null (an API key being configured).
TeerExporterShutdownClears ==
  \A c \in 1..Len(callers) :
    (cls = "TeerExporter" /\ apiKey /\ callers[c].op = "shutdown" /\ Done(c))
      => flushIntervalId = NULL /\ ~instance


\* the records of the flush promises whose sends are not over
InFlight ==
  UNION {Range(Flatten(flights[p].batches)) :
           p \in {q \in DOMAIN flights : flights[q].st \in {"sending", "cont"}}}

\* C26: no duplicate delivery (both classes): only the step that handles a
\* successful send adds records to the delivered ones, and none of them was
\* delivered before; a record already accepted enters the queue again only
\* in the step that handles the failed send that carried it; a delivered
\* record is never queued or in flight again.
NoDuplicateDelivery ==
  /\ [][/\ RunsJob("pb", TRUE) =>
             LET b == Range(Head(flights[Head(mq).f].batches))
             IN b \cap delivered = {} /\ delivered' = delivered \cup b
        /\ ~RunsJob("pb", TRUE) => delivered' = delivered
        /\ \A r \in Range(spanQueue') \ Range(spanQueue) :
             \/ r >= nextId
             \/ /\ RunsJob("pb", FALSE)
                /\ r \in Range(Head(flights[Head(mq).f].batches))]_vars
  /\ [](/\ delivered \cap Range(spanQueue) = {}
        /\ delivered \cap InFlight = {}
        /\ InFlight \cap Range(spanQueue) = {})

\* C26 witness: a record whose first send failed was queued again and
\* delivered by a later send: it went out twice and was delivered once.
NoDuplicateDeliveryWitness ==
  /\ fails > 0
  /\ \E r \in delivered :
       Cardinality({i \in 1..Len(sent) : r \in Range(sent[i])}) = 2


\* C27 (as claimed): in the step in which a TeerEdgeExporter.shutdown() call
\* resolves (no forceFlush() having been called after it), no transport send
\* is outstanding and activeFlush is null.
ShutdownQuiescent ==
  [][\A c \in 1..Len(callers) :
       (/\ Edge
        /\ c = Len(callers)
        /\ callers[c].op = "shutdown"
        /\ callers[c].pc # "resolved"
        /\ callers'[c].pc = "resolved")
       => activeFlush' = NULL /\ \A p \in DOMAIN flights' : flights'[p].st # "sending"]_vars


\* provider.shutdown() calls that are in progress
ProviderShutdowns ==
  {f \in 1..Len(teerEdge.calls) : teerEdge.calls[f].pc = "awaitProvider"}

\* C28 (as claimed): with TeerEdge.shutdown() called several times
\* concurrently, no call reads TeerEdge.instance.shutdownProvider with
\* instance null after its forceFlush(), and provider.shutdown() is in
\* progress at most once.
ConcurrentShutdownSafe ==
  /\ \A f \in 1..Len(teerEdge.calls) : teerEdge.calls[f].pc # "typeError"
  /\ Cardinality(ProviderShutdowns) <= 1
====
